---- MODULE Spec2Model ----
(***************************************************************************)
(* Calendar booking agent (backend/main.py): the calendar service layer    *)
(* (check_availability, create_event, create_multiple_events,              *)
(* suggest_time_slots) and the agent tools built on it                     *)
(* (find_next_available_slot, suggest_available_slots, book_appointment,   *)
(* book_recurring_appointment).                                            *)
(*                                                                         *)
(* Time.  An instant is an integer number of seconds.  Local instants      *)
(* (Asia/Kolkata, a fixed offset of +05:30, no daylight saving) count from *)
(* a Monday 00:00:00 local; weekday 0 is Monday as in datetime.weekday().  *)
(* Microseconds behave as the seconds field does in every place of the     *)
(* code that is modelled (both are cleared or both are kept), so the       *)
(* seconds field stands for both.                                          *)
(*                                                                         *)
(* Provider.  The Google Calendar API is the external collaborator: a set  *)
(* of events, a list query that returns the events intersecting a range,   *)
(* an insert that adds an event, and a metadata get.  Every provider call  *)
(* may fail (network, auth): the outcome is chosen nondeterministically.   *)
(***************************************************************************)
EXTENDS Integers, Sequences, FiniteSets, TLC

VARIABLES
    service,    \* calendar_service.service is not None
    events,     \* the provider's calendar: a set of events
    lastCall,   \* the most recent provider call (events.list / events.insert)
                \* of the running tool invocation
    chk,        \* a direct call of check_availability: its inputs and outcome
    book,       \* book_appointment: one record per concurrent request
    recur,      \* book_recurring_appointment / create_multiple_events
    find,       \* find_next_available_slot
    sug,        \* suggest_available_slots / suggest_time_slots
    node,       \* tool_node: the tool calls of one agent turn and their messages
    conv,       \* a timezone conversion: local clock, UTC clock and back
    sessions,   \* the sessions dict: per session id, its messages list and calendar_id
    session_local,  \* threading.local of the thread that serves the requests
    chat,       \* chat_endpoint: the request being served and its response
    heap        \* the list objects: initial_messages and the message lists

vars == <<service, events, lastCall, chk, book, recur, find, sug, node, conv,
          sessions, session_local, chat, heap>>
\* The state of the chat endpoint
chatVars == <<sessions, session_local, chat, heap>>
\* The state outside the calendar tools
agentVars == <<node, conv, chatVars>>

----------------------------------------------------------------------------
(* Configuration (main.py 27-31) and the literals of the scan loops *)

WORK_HOURS_START == 9
WORK_HOURS_END == 17
SEARCH_LIMIT_DAYS == 30
SlotStepMinutes == 30
MaxSuggestions == 5

HourSec == 60 * 60
MinuteSec == HourSec \div 60
DaySec == 24 * 60 * 60
\* Asia/Kolkata is UTC+05:30 all year
UtcOffsetSec == 5 * HourSec + 30 * MinuteSec

----------------------------------------------------------------------------
(* datetime arithmetic on local instants *)

DayOf(t) == t \div DaySec
SecOfDay(t) == t % DaySec
HourOf(t) == SecOfDay(t) \div HourSec
MinuteOf(t) == (SecOfDay(t) % HourSec) \div MinuteSec
SecondOf(t) == t % MinuteSec
\* datetime.weekday(): 0 = Monday ... 6 = Sunday
Weekday(t) == DayOf(t) % 7
\* datetime(day, h, m, s) in the local zone
LocalTime(d, h, m, s) == d * DaySec + h * HourSec + m * MinuteSec + s
\* dt.astimezone(pytz.utc): the same instant on the UTC clock
ToUTC(t) == t - UtcOffsetSec
\* Variant of the zone: the half hour of the offset is lost
FromUTCWholeHours(u) == u + 5 * HourSec

\* dt.astimezone(tz): a UTC clock reading back on the local clock
FromUTC(u) == u + UtcOffsetSec

----------------------------------------------------------------------------
(* The provider *)

CalendarIds == {"primary", "team"}
NoCall == [op |-> "none"]

\* Variant of the list query: only events that start inside the range
ListEventsStartingInside(cal, tmin, tmax) ==
    {e \in events : e.cal = cal /\ e.start >= tmin /\ e.start < tmax}

\* Variant of the list query: timeMin and timeMax are not passed
ListEventsWholeCalendar(cal, tmin, tmax) ==
    {e \in events : e.cal = cal}

\* events().list(calendarId, timeMin, timeMax, singleEvents=True): the events
\* of the calendar that intersect [tmin, tmax)
ListEvents(cal, tmin, tmax) ==
    {e \in events : e.cal = cal /\ e.end > tmin /\ e.start < tmax}

\* The id the provider gives the next inserted event
NewEventId == Cardinality(events) + 1
\* htmlLink of an event
LinkOf(id) == <<"htmlLink", id>>

\* events().insert(calendarId, body).execute(): the calendar with the event added
Inserted(cal, s, e, who) ==
    events \cup {[id |-> NewEventId, cal |-> cal, start |-> s, end |-> e, by |-> who]}

ListCall(cal, tmin, tmax) == [op |-> "list", cal |-> cal, tmin |-> tmin, tmax |-> tmax]
InsertCall(cal, s, e) == [op |-> "insert", cal |-> cal, tmin |-> s, tmax |-> e]

----------------------------------------------------------------------------
(* GoogleCalendarService.check_availability (main.py 104-120) *)

\* Fail-open variant: a provider error is read as "free"
CheckAvailabilityFailOpen(svc, respOk, items) ==
    IF ~svc THEN FALSE
    ELSE IF ~respOk THEN TRUE
    ELSE Cardinality(items) = 0

\* The value returned: False without a service, False when the list call
\* raises (the except clause absorbs it), else len(items) == 0
CheckAvailability(svc, respOk, items) ==
    IF ~svc THEN FALSE
    ELSE IF ~respOk THEN FALSE
    ELSE Cardinality(items) = 0

\* The provider call check_availability makes: none without a service
CheckCall(svc, cal, tmin, tmax) ==
    IF svc THEN ListCall(cal, tmin, tmax) ELSE lastCall

\* A half-open range [s1, e1) intersects [s2, e2)
Overlap(s1, e1, s2, e2) == s1 < e2 /\ s2 < e1

----------------------------------------------------------------------------
(* Idle values of the per-operation state *)

NoResult == [kind |-> "none"]
ChkIdle == [pc |-> "idle"]
BookIdle == [pc |-> "idle"]
RecurIdle == [pc |-> "idle"]
FindIdle == [pc |-> "idle"]
SugIdle == [pc |-> "idle"]
NodeIdle == [pc |-> "idle"]
\* No request has been served
ChatIdle == [pc |-> "idle", n |-> 0]
\* request.session_id
SessionIds == {"A", "B"}
\* session_id not in sessions
NoSession == [present |-> FALSE]
\* initial_messages = [AIMessage(content=system_prompt)]; it is list 1 of the heap
initial_messages == <<[type |-> "ai", content |-> "system_prompt"]>>
ConvIdle == [pc |-> "idle"]
\* Nothing outside the calendar tools has run
AgentIdle ==
    /\ node = NodeIdle
    /\ conv = ConvIdle
    /\ sessions = [sid \in SessionIds |-> NoSession]
    /\ session_local = [has |-> FALSE]
    /\ chat = ChatIdle
    /\ heap = <<initial_messages>>

----------------------------------------------------------------------------
(* Inputs of the booking runs *)

\* Concurrent chat requests that call book_appointment
Requests == {1, 2}
\* Events another writer of the same calendar may add while requests run
MaxExternal == 1

\* parse_time(start_time): an aware local datetime, or None
NoneTime == -1
BookStarts == {LocalTime(0, 10, 0, 0), LocalTime(0, 10, 30, 0)}
BookDurations == {-30, 0, 30, 60}
\* Events on the calendar before any request (UTC)
SeedEvent ==
    [id |-> 1, cal |-> "primary", start |-> ToUTC(LocalTime(0, 10, 30, 0)),
     end |-> ToUTC(LocalTime(0, 11, 30, 0)), by |-> <<"seed", 0>>]
TeamEvent ==
    [id |-> 1, cal |-> "team", start |-> ToUTC(LocalTime(0, 10, 0, 0)),
     end |-> ToUTC(LocalTime(0, 10, 30, 0)), by |-> <<"seed", 0>>]
SeedCalendars == {{}, {SeedEvent}, {TeamEvent}}
ExternalRanges == {<<LocalTime(0, 10, 0, 0), LocalTime(0, 11, 0, 0)>>}

----------------------------------------------------------------------------
(* A direct call of GoogleCalendarService.check_availability *)

CheckRanges ==
    {<<LocalTime(0, 10, 0, 0), LocalTime(0, 11, 0, 0)>>,
     <<LocalTime(0, 11, 0, 0), LocalTime(0, 12, 0, 0)>>,
     <<LocalTime(0, 11, 30, 0), LocalTime(0, 12, 0, 0)>>,
     <<LocalTime(1, 9, 0, 0), LocalTime(1, 9, 30, 0)>>}

\* check_availability(start_utc, end_utc, calendar_id), main.py 104-120
CallCheckAvailability(cal, s, e) ==
    /\ chk.pc = "idle"
    /\ \E respOk \in BOOLEAN :
        LET items == ListEvents(cal, s, e)
        IN /\ chk' = [pc |-> "returned", svc |-> service, cal |-> cal,
                      tmin |-> s, tmax |-> e, respOk |-> respOk, items |-> items,
                      result |-> CheckAvailability(service, respOk, items)]
           /\ lastCall' = CheckCall(service, cal, s, e)
    /\ UNCHANGED <<service, events, book, recur, find, sug>>

\* The caller takes the result
CheckDone ==
    /\ chk.pc = "returned"
    /\ chk' = ChkIdle
    /\ UNCHANGED <<service, events, lastCall, book, recur, find, sug>>

\* Another writer of the calendar adds an event
ExternalWrite ==
    /\ Cardinality({e \in events : e.by = <<"ext", 0>>}) < MaxExternal
    /\ \E r \in ExternalRanges, cal \in CalendarIds :
        events' = Inserted(cal, ToUTC(r[1]), ToUTC(r[2]), <<"ext", 0>>)
    /\ UNCHANGED <<service, lastCall, chk, book, recur, find, sug>>

CheckInit ==
    /\ service \in BOOLEAN
    /\ events \in SeedCalendars
    /\ lastCall = NoCall
    /\ chk = ChkIdle
    /\ book = [r \in Requests |-> BookIdle]
    /\ recur = RecurIdle
    /\ find = FindIdle
    /\ sug = SugIdle
    /\ AgentIdle

CheckNext ==
    \/ \E cal \in CalendarIds, r \in CheckRanges :
         CallCheckAvailability(cal, ToUTC(r[1]), ToUTC(r[2]))
         /\ UNCHANGED agentVars
    \/ CheckDone /\ UNCHANGED agentVars
    \/ ExternalWrite /\ UNCHANGED agentVars

CheckSpec == CheckInit /\ [][CheckNext]_vars

----------------------------------------------------------------------------
(* GoogleCalendarService.create_event (main.py 122-137) *)

\* The value returned: None without a service or when insert raises, else
\* the provider's event resource (id, htmlLink)
NoneEvent == [id |-> 0]
CreateEvent(svc, respOk) ==
    IF ~svc THEN NoneEvent
    ELSE IF ~respOk THEN NoneEvent
    ELSE [id |-> NewEventId, htmlLink |-> LinkOf(NewEventId)]

\* The calendar after create_event: the event is added iff the insert succeeded
AfterCreate(svc, respOk, cal, s, e, who) ==
    IF svc /\ respOk THEN Inserted(cal, s, e, who) ELSE events

----------------------------------------------------------------------------
(* book_appointment (main.py 382-434), one step per provider call *)

\* Lines 393-396: the service guard, then the session's calendar id is read
BookCall(r, cal, start, dur) ==
    /\ book[r].pc = "idle"
    /\ book' = [book EXCEPT ![r] =
          [pc |-> IF service THEN "validate" ELSE "done",
           cal |-> cal, start |-> start, dur |-> dur,
           avail |-> FALSE, insertOk |-> FALSE, nList |-> 0, nInsert |-> 0,
           result |-> IF service THEN NoResult ELSE [kind |-> "NotConnected"]]]
    /\ UNCHANGED <<service, events, lastCall, chk, recur, find, sug>>

\* Variant of the guards: the availability query is sent first, the access
\* and parsing guards are evaluated after it
BookValidateAfterList(r) ==
    /\ book[r].pc = "validate"
    /\ \E accessOk \in BOOLEAN :
        book' = [book EXCEPT ![r] =
            IF ~accessOk
            THEN [@ EXCEPT !.pc = "done", !.result = [kind |-> "AccessDenied"]]
            ELSE IF @.start = NoneTime
            THEN [@ EXCEPT !.pc = "done", !.result = [kind |-> "Unparsable"]]
            ELSE [@ EXCEPT !.pc = "check"]]
    /\ lastCall' = ListCall(book[r].cal, ToUTC(book[r].start), ToUTC(book[r].start))
    /\ UNCHANGED <<service, events, chk, recur, find, sug>>

\* Lines 398-406: validate_calendar_access (calendars().get), then parse_time
BookValidate(r) ==
    /\ book[r].pc = "validate"
    /\ \E accessOk \in BOOLEAN :
        book' = [book EXCEPT ![r] =
            IF ~accessOk
            THEN [@ EXCEPT !.pc = "done", !.result = [kind |-> "AccessDenied"]]
            ELSE IF @.start = NoneTime
            THEN [@ EXCEPT !.pc = "done", !.result = [kind |-> "Unparsable"]]
            ELSE [@ EXCEPT !.pc = "check"]]
    /\ UNCHANGED <<service, events, lastCall, chk, recur, find, sug>>

\* end_time_local = start_time_local + timedelta(minutes=duration_minutes)
BookEnd(b) == b.start + b.dur * MinuteSec

\* Variant of the branch after the final check: the result is ignored
BookAfterCheckUnguarded(b, avail) ==
    [b EXCEPT !.pc = "create", !.avail = avail, !.nList = @ + 1]

\* Lines 408-410: the branch on the final availability check
BookAfterCheck(b, avail) ==
    IF avail
    THEN [b EXCEPT !.pc = "create", !.avail = avail, !.nList = @ + 1]
    ELSE [b EXCEPT !.pc = "done", !.avail = avail, !.nList = @ + 1,
                   !.result = [kind |-> "NotAvailable"]]

\* Lines 408-410: the final availability check
BookCheck(r) ==
    /\ book[r].pc = "check"
    /\ \E respOk \in BOOLEAN :
        LET b == book[r]
            s == ToUTC(b.start)
            e == ToUTC(BookEnd(b))
            avail == CheckAvailability(service, respOk, ListEvents(b.cal, s, e))
        IN /\ book' = [book EXCEPT ![r] = BookAfterCheck(b, avail)]
           /\ lastCall' = CheckCall(service, b.cal, s, e)
    /\ UNCHANGED <<service, events, chk, recur, find, sug>>

\* Variant of the result: success is reported whatever create_event returned
BookResultAlwaysSuccess(event) ==
    [kind |-> "Created", id |-> event.id, link |-> LinkOf(event.id)]

\* Lines 421-434: the result built from what create_event returned
BookResult(event) ==
    IF event # NoneEvent
    THEN [kind |-> "Created", id |-> event.id, link |-> event.htmlLink]
    ELSE [kind |-> "ProviderError"]

\* Variant of the create step: a failed insert is sent again
BookCreateRetry(r) ==
    /\ book[r].pc = "create"
    /\ \E respOk \in BOOLEAN :
        LET b == book[r]
            s == ToUTC(b.start)
            e == ToUTC(BookEnd(b))
        IN /\ book' = [book EXCEPT ![r] =
                 IF respOk
                 THEN [b EXCEPT !.pc = "done", !.insertOk = TRUE, !.nInsert = @ + 1,
                                !.result = BookResult(CreateEvent(service, TRUE))]
                 ELSE [b EXCEPT !.nInsert = @ + 1]]
           /\ events' = AfterCreate(service, respOk, b.cal, s, e, <<"req", r>>)
           /\ lastCall' = InsertCall(b.cal, s, e)
    /\ UNCHANGED <<service, chk, recur, find, sug>>

\* Variant of the create step: a conditional write that looks at the calendar again
BookCreateLocked(r) ==
    /\ book[r].pc = "create"
    /\ \E respOk \in BOOLEAN :
        LET b == book[r]
            s == ToUTC(b.start)
            e == ToUTC(BookEnd(b))
            free == ListEvents(b.cal, s, e) = {}
        IN /\ book' = [book EXCEPT ![r] =
                 [b EXCEPT !.pc = "done", !.insertOk = respOk, !.nInsert = @ + 1,
                           !.result = IF free
                                      THEN BookResult(CreateEvent(service, respOk))
                                      ELSE [kind |-> "NotAvailable"]]]
           /\ events' = IF free
                        THEN AfterCreate(service, respOk, b.cal, s, e, <<"req", r>>)
                        ELSE events
           /\ lastCall' = InsertCall(b.cal, s, e)
    /\ UNCHANGED <<service, chk, recur, find, sug>>

\* Lines 412-434: create_event, then the result
BookCreate(r) ==
    /\ book[r].pc = "create"
    /\ \E respOk \in BOOLEAN :
        LET b == book[r]
            s == ToUTC(b.start)
            e == ToUTC(BookEnd(b))
        IN /\ book' = [book EXCEPT ![r] =
                 [b EXCEPT !.pc = "done", !.insertOk = respOk, !.nInsert = @ + 1,
                           !.result = BookResult(CreateEvent(service, respOk))]]
           /\ events' = AfterCreate(service, respOk, b.cal, s, e, <<"req", r>>)
           /\ lastCall' = InsertCall(b.cal, s, e)
    /\ UNCHANGED <<service, chk, recur, find, sug>>

Init ==
    /\ service \in BOOLEAN
    /\ events \in SeedCalendars
    /\ lastCall = NoCall
    /\ chk = ChkIdle
    /\ book = [r \in Requests |-> BookIdle]
    /\ recur = RecurIdle
    /\ find = FindIdle
    /\ sug = SugIdle
    /\ AgentIdle

Next ==
    \/ \E r \in Requests, cal \in CalendarIds,
          start \in BookStarts \cup {NoneTime}, dur \in BookDurations :
         BookCall(r, cal, start, dur)
         /\ UNCHANGED agentVars
    \/ \E r \in Requests : BookValidate(r) /\ UNCHANGED agentVars
    \/ \E r \in Requests : BookCheck(r) /\ UNCHANGED agentVars
    \/ \E r \in Requests : BookCreate(r) /\ UNCHANGED agentVars
    \/ ExternalWrite /\ UNCHANGED agentVars

Spec == Init /\ [][Next]_vars

----------------------------------------------------------------------------
(* parse_weekdays and generate_recurring_dates (main.py 259-301) *)

WeekdayNames ==
    {"monday", "tuesday", "wednesday", "thursday", "friday", "saturday", "sunday",
     "mon", "tue", "wed", "thu", "fri", "sat", "sun"}

\* weekday_mapping
WeekdayMapping(name) ==
    CASE name \in {"monday", "mon"} -> 0
      [] name \in {"tuesday", "tue"} -> 1
      [] name \in {"wednesday", "wed"} -> 2
      [] name \in {"thursday", "thu"} -> 3
      [] name \in {"friday", "fri"} -> 4
      [] name \in {"saturday", "sat"} -> 5
      [] name \in {"sunday", "sun"} -> 6

RECURSIVE ParseWeekdays(_)
\* parse_weekdays on the comma-separated, stripped, lower-cased tokens: the
\* numbers of the recognised names, in order, duplicates kept
ParseWeekdays(tokens) ==
    IF tokens = <<>> THEN <<>>
    ELSE IF Head(tokens) \in WeekdayNames
         THEN <<WeekdayMapping(Head(tokens))>> \o ParseWeekdays(Tail(tokens))
         ELSE ParseWeekdays(Tail(tokens))

\* x in list
InList(x, list) == \E i \in 1..Len(list) : list[i] = x

\* datetime.strptime(s, '%H:%M').time() as seconds of the day
TimeOfDay(hm) == hm[1] * HourSec + hm[2] * MinuteSec

\* One entry of the list generate_recurring_dates returns; date_str names
\* the date (weekday and calendar day)
Occurrence(d, st, et) ==
    [start_utc |-> ToUTC(d * DaySec + TimeOfDay(st)),
     end_utc |-> ToUTC(d * DaySec + TimeOfDay(et)),
     date_str |-> <<d % 7, d>>]

RECURSIVE GenerateFrom(_, _, _, _, _)
\* The while loop of generate_recurring_dates from current_date on
GenerateFrom(current, endDay, weekdays, st, et) ==
    IF current > endDay THEN <<>>
    ELSE (IF InList(current % 7, weekdays)
          THEN <<Occurrence(current, st, et)>>
          ELSE <<>>) \o GenerateFrom(current + 1, endDay, weekdays, st, et)

\* Variant of the date range: the end date itself is left out
GenerateRecurringDatesExclusive(startDay, endDay, weekdays, st, et) ==
    GenerateFrom(startDay, endDay - 1, weekdays, st, et)

\* generate_recurring_dates(start_date, end_date, weekdays, start, end)
GenerateRecurringDates(startDay, endDay, weekdays, st, et) ==
    GenerateFrom(startDay, endDay, weekdays, st, et)

----------------------------------------------------------------------------
(* book_recurring_appointment (main.py 436-517) and                       *)
(* GoogleCalendarService.create_multiple_events (main.py 158-191)          *)

\* datetime.now(tz).date() when the tool runs
RecurTodays == {7, 10}
\* parse_time(end_date).date() relative to today, or None
RecurEndOffsets == {-1, 0, 6, 13, 20}
RecurWeekdayTexts ==
    {<<"mon">>, <<"tuesday", "thu">>, <<"tue", "tuesday">>, <<"sat", "funday">>,
     <<"someday">>}
\* start_time, end_time as 'HH:MM', or text strptime rejects
BadTime == <<-1, -1>>
RecurTimes ==
    {<<<<10, 0>>, <<11, 0>>>>, <<<<11, 0>>, <<10, 0>>>>, <<<<10, 0>>, <<10, 0>>>>,
     <<<<10, 0>>, BadTime>>}
\* Events on the calendar before the batch (UTC)
BusyTuesday ==
    [id |-> 1, cal |-> "primary", start |-> ToUTC(LocalTime(8, 10, 30, 0)),
     end |-> ToUTC(LocalTime(8, 11, 30, 0)), by |-> <<"seed", 0>>]
RecurCalendars == {{}, {BusyTuesday}}

\* Lines 450-453: the service guard, then the session's calendar id is read
RecurCall(cal, today, endDay, texts, times) ==
    /\ recur.pc = "idle"
    /\ recur' =
          [pc |-> IF service THEN "validate" ELSE "done",
           cal |-> cal, today |-> today, endDay |-> endDay,
           weekdays |-> ParseWeekdays(texts), st |-> times[1], et |-> times[2],
           occs |-> <<>>, idx |-> 0, created |-> <<>>, failed |-> <<>>,
           nList |-> <<>>, nInsert |-> <<>>, nErrors |-> 0,
           result |-> IF service THEN NoResult ELSE [kind |-> "NotConnected"]]
    /\ UNCHANGED <<service, events, lastCall, chk, book, find, sug>>

\* Lines 490-517: the tool's result from the two lists
RecurResult(created, failed, total) ==
    IF created # <<>>
    THEN [kind |-> "Success", successCount |-> Len(created), totalCount |-> total,
          created |-> created, failed |-> failed,
          conflictCount |-> Len(failed)]
    ELSE [kind |-> "NoneCreated"]

\* Variant of the guards: an empty list of occurrences is handed to
\* create_multiple_events, whose two empty lists give the none-created result
RecurValidateNoEmptyGuard ==
    /\ recur.pc = "validate"
    /\ \E accessOk \in BOOLEAN :
        LET occs == GenerateRecurringDates(recur.today, recur.endDay,
                                           recur.weekdays, recur.st, recur.et)
        IN recur' =
            IF ~accessOk
            THEN [recur EXCEPT !.pc = "done", !.result = [kind |-> "AccessDenied"]]
            ELSE IF \/ recur.endDay = NoneTime
                    \/ recur.weekdays = <<>>
                    \/ recur.st = BadTime \/ recur.et = BadTime
            THEN [recur EXCEPT !.pc = "done", !.result = [kind |-> "Unparsable"]]
            ELSE IF occs = <<>>
            THEN [recur EXCEPT !.pc = "done",
                               !.result = RecurResult(<<>>, <<>>, 0)]
            ELSE [recur EXCEPT !.pc = "check", !.occs = occs, !.idx = 1,
                               !.nList = [i \in 1..Len(occs) |-> 0],
                               !.nInsert = [i \in 1..Len(occs) |-> 0]]
    /\ UNCHANGED <<service, events, lastCall, chk, book, find, sug>>

\* Lines 455-488: validate_calendar_access, the parsing guards,
\* generate_recurring_dates, and the entry into create_multiple_events
RecurValidate ==
    /\ recur.pc = "validate"
    /\ \E accessOk \in BOOLEAN :
        LET occs == GenerateRecurringDates(recur.today, recur.endDay,
                                           recur.weekdays, recur.st, recur.et)
        IN recur' =
            IF ~accessOk
            THEN [recur EXCEPT !.pc = "done", !.result = [kind |-> "AccessDenied"]]
            ELSE IF recur.endDay = NoneTime
            THEN [recur EXCEPT !.pc = "done", !.result = [kind |-> "Unparsable"]]
            ELSE IF recur.weekdays = <<>>
            THEN [recur EXCEPT !.pc = "done", !.result = [kind |-> "Unparsable"]]
            ELSE IF recur.st = BadTime \/ recur.et = BadTime
            THEN [recur EXCEPT !.pc = "done", !.result = [kind |-> "Unparsable"]]
            ELSE IF occs = <<>>
            THEN [recur EXCEPT !.pc = "done", !.result = [kind |-> "NoMatch"]]
            ELSE IF ~service
            \* create_multiple_events returns [] and the unpacking at 486 raises
            THEN [recur EXCEPT !.pc = "done", !.result = [kind |-> "Raised"]]
            ELSE [recur EXCEPT !.pc = "check", !.occs = occs, !.idx = 1,
                               !.nList = [i \in 1..Len(occs) |-> 0],
                               !.nInsert = [i \in 1..Len(occs) |-> 0]]
    /\ UNCHANGED <<service, events, lastCall, chk, book, find, sug>>

\* The for loop moves to the next event_time; after the last one
\* create_multiple_events returns and the tool builds its result
RecurAdvance(rec) ==
    IF rec.idx < Len(rec.occs)
    THEN [rec EXCEPT !.pc = "check", !.idx = @ + 1]
    ELSE [rec EXCEPT !.pc = "done", !.idx = @ + 1,
                     !.result = RecurResult(rec.created, rec.failed, Len(rec.occs))]

\* Variant of the unavailable branch: the batch stops at the first conflict
RecurUnavailableAbort(rec) ==
    [pc |-> "done", cal |-> rec.cal, today |-> rec.today, endDay |-> rec.endDay,
     weekdays |-> rec.weekdays, st |-> rec.st, et |-> rec.et, occs |-> rec.occs,
     idx |-> rec.idx + 1, created |-> rec.created,
     failed |-> Append(rec.failed, [date |-> rec.occs[rec.idx].date_str,
                                    reason |-> "Time slot not available"]),
     nList |-> rec.nList, nInsert |-> rec.nInsert, nErrors |-> rec.nErrors,
     result |-> RecurResult(rec.created, rec.failed, Len(rec.occs))]

\* Lines 171-176: the occurrence is recorded as failed and the loop continues
RecurUnavailable(rec) ==
    RecurAdvance([rec EXCEPT !.failed =
        Append(@, [date |-> rec.occs[rec.idx].date_str,
                   reason |-> "Time slot not available"])])

\* Lines 166-176: the availability check of the current occurrence
RecurCheck ==
    /\ recur.pc = "check"
    /\ \E respOk \in BOOLEAN :
        LET occ == recur.occs[recur.idx]
            avail == CheckAvailability(service, respOk,
                        ListEvents(recur.cal, occ.start_utc, occ.end_utc))
            counted == [recur EXCEPT !.nList[recur.idx] = @ + 1,
                                     !.nErrors = IF respOk THEN @ ELSE @ + 1]
        IN /\ recur' = IF avail
                       THEN [counted EXCEPT !.pc = "create"]
                       ELSE RecurUnavailable(counted)
           /\ lastCall' = CheckCall(service, recur.cal, occ.start_utc, occ.end_utc)
    /\ UNCHANGED <<service, events, chk, book, find, sug>>

\* Lines 178-189: create_event, then the created or the failed list
RecurCreate ==
    /\ recur.pc = "create"
    /\ \E respOk \in BOOLEAN :
        LET occ == recur.occs[recur.idx]
            event == CreateEvent(service, respOk)
            counted == [recur EXCEPT !.nInsert[recur.idx] = @ + 1,
                                     !.nErrors = IF respOk THEN @ ELSE @ + 1]
        IN /\ recur' =
                IF event # NoneEvent
                THEN RecurAdvance([counted EXCEPT !.created =
                        Append(@, [event_id |-> event.id, date |-> occ.date_str,
                                   link |-> event.htmlLink])])
                ELSE RecurAdvance([counted EXCEPT !.failed =
                        Append(@, [date |-> occ.date_str,
                                   reason |-> "Failed to create event"])])
           /\ events' = AfterCreate(service, respOk, recur.cal,
                                    occ.start_utc, occ.end_utc, <<"recur", recur.idx>>)
           /\ lastCall' = InsertCall(recur.cal, occ.start_utc, occ.end_utc)
    /\ UNCHANGED <<service, chk, book, find, sug>>

RecurInit ==
    /\ service \in BOOLEAN
    /\ events \in RecurCalendars
    /\ lastCall = NoCall
    /\ chk = ChkIdle
    /\ book = [r \in Requests |-> BookIdle]
    /\ recur = RecurIdle
    /\ find = FindIdle
    /\ sug = SugIdle
    /\ AgentIdle

RecurNext ==
    \/ \E cal \in CalendarIds, today \in RecurTodays, off \in RecurEndOffsets,
          texts \in RecurWeekdayTexts, times \in RecurTimes :
         RecurCall(cal, today, today + off, texts, times)
         /\ UNCHANGED agentVars
    \/ \E cal \in CalendarIds, today \in RecurTodays,
          texts \in RecurWeekdayTexts, times \in RecurTimes :
         RecurCall(cal, today, NoneTime, texts, times)
         /\ UNCHANGED agentVars
    \/ RecurValidate /\ UNCHANGED agentVars
    \/ RecurCheck /\ UNCHANGED agentVars
    \/ RecurCreate /\ UNCHANGED agentVars

RecurSpec == RecurInit /\ [][RecurNext]_vars

----------------------------------------------------------------------------
(* find_next_available_slot (main.py 304-350) *)

\* dt.replace(minute=m, second=0, microsecond=0)
ReplaceMinute(t, m) == t - MinuteOf(t) * MinuteSec - SecondOf(t) + m * MinuteSec

\* Lines 326-330: round up to the next half hour unless the minute is 0 or 30
RoundToSlot(t) ==
    IF MinuteOf(t) \notin {0, SlotStepMinutes}
    THEN IF MinuteOf(t) < SlotStepMinutes
         THEN ReplaceMinute(t, SlotStepMinutes)
         ELSE ReplaceMinute(t + HourSec, 0)
    ELSE t

\* (t + timedelta(days=1)).replace(hour=WORK_HOURS_START, minute=0): the
\* seconds of t are kept
NextDayStart(t) ==
    (DayOf(t) + 1) * DaySec + WORK_HOURS_START * HourSec + SecondOf(t)

\* Line 333: weekend, or outside the working hours
SkipDay(t) ==
    Weekday(t) >= 5 \/ ~(WORK_HOURS_START <= HourOf(t) /\ HourOf(t) < WORK_HOURS_END)

\* Line 340: the test on the end of the meeting
EndsAfterWork(e) ==
    HourOf(e) > WORK_HOURS_END \/ (HourOf(e) = WORK_HOURS_END /\ MinuteOf(e) > 0)

\* strftime('%A, %B %d at %I:%M %p %Z'): weekday, date, 12-hour clock, minute
\* and AM/PM; seconds are not shown
FormatSlotStart(t) ==
    [weekday |-> Weekday(t), day |-> DayOf(t),
     hour12 |-> IF HourOf(t) % 12 = 0 THEN 12 ELSE HourOf(t) % 12,
     minute |-> MinuteOf(t), pm |-> HourOf(t) >= 12]

\* The local instant a formatted slot start names
ReadSlotStart(d) ==
    LocalTime(d.day, (d.hour12 % 12) + (IF d.pm THEN 12 ELSE 0), d.minute, 0)

\* datetime.now(tz) when the tool runs
FindDays == {7, 11, 12, 13}
FindClocks ==
    {<<8, 10, 0>>, <<9, 0, 30>>, <<12, 45, 10>>, <<16, 0, 0>>, <<16, 40, 0>>,
     <<17, 20, 0>>, <<23, 50, 5>>}
FindDurations == {-30, 0, 1, 60, 480}
\* Events on the calendar before the search (UTC)
FullyBooked ==
    [id |-> 1, cal |-> "primary", start |-> ToUTC(LocalTime(0, 0, 0, 0)),
     end |-> ToUTC(LocalTime(60, 0, 0, 0)), by |-> <<"seed", 0>>]
FindCalendars == {{}, {FullyBooked}}

\* Lines 312-315: the service guard, then the session's calendar id is read
FindCall(cal, now, dur) ==
    /\ find.pc = "idle"
    /\ find' =
          [pc |-> IF service THEN "validate" ELSE "done",
           cal |-> cal, now |-> now, dur |-> dur, cur |-> now,
           checked |-> FALSE, lastAvail |-> FALSE, lastStart |-> now, lastEnd |-> now,
           hadError |-> FALSE,
           result |-> IF service THEN NoResult ELSE [kind |-> "NotConnected"]]
    /\ UNCHANGED <<service, events, lastCall, chk, book, recur, sug>>

\* Lines 317-322: validate_calendar_access, then the cursor starts at now
FindValidate ==
    /\ find.pc = "validate"
    /\ \E accessOk \in BOOLEAN :
        find' = IF accessOk
                THEN [find EXCEPT !.pc = "scan"]
                ELSE [find EXCEPT !.pc = "done", !.result = [kind |-> "AccessDenied"]]
    /\ UNCHANGED <<service, events, lastCall, chk, book, recur, sug>>

\* current_time < start_search_local + timedelta(days=SEARCH_LIMIT_DAYS)
FindLimit(f) == f.now + SEARCH_LIMIT_DAYS * DaySec

\* Variant of the busy branch: the cursor is not advanced
FindBusyStuck(f, start, end) ==
    [f EXCEPT !.cur = start, !.checked = TRUE, !.lastAvail = FALSE,
              !.lastStart = start, !.lastEnd = end]

\* Line 348: the candidate was busy, the cursor moves on by one step
FindBusy(f, start, end) ==
    [f EXCEPT !.cur = start + SlotStepMinutes * MinuteSec,
              !.checked = TRUE, !.lastAvail = FALSE,
              !.lastStart = start, !.lastEnd = end]

\* Line 324: the loop test
FindInHorizon(f) == f.cur < FindLimit(f)

\* Lines 324-350: the loop test and one pass through the loop body
FindStep ==
    /\ find.pc = "scan"
    /\ LET start == RoundToSlot(find.cur)
           end == start + find.dur * MinuteSec
       IN IF ~FindInHorizon(find)
          THEN /\ find' = [find EXCEPT !.pc = "done", !.result = [kind |-> "NotFound"]]
               /\ UNCHANGED lastCall
          ELSE IF SkipDay(start) \/ EndsAfterWork(end)
          THEN /\ find' = [find EXCEPT !.cur = NextDayStart(start)]
               /\ UNCHANGED lastCall
          ELSE \E respOk \in BOOLEAN :
               LET avail == CheckAvailability(service, respOk,
                               ListEvents(find.cal, ToUTC(start), ToUTC(end)))
                   \* hadError: some list call of this search raised
                   f == [find EXCEPT !.hadError = @ \/ ~respOk]
               IN /\ find' =
                       IF avail
                       THEN [f EXCEPT !.pc = "done", !.cur = start, !.checked = TRUE,
                                      !.lastAvail = TRUE,
                                      !.lastStart = start, !.lastEnd = end,
                                      !.result = [kind |-> "Slot",
                                                  start |-> FormatSlotStart(start),
                                                  dur |-> find.dur]]
                       ELSE FindBusy(f, start, end)
                  /\ lastCall' = CheckCall(service, find.cal, ToUTC(start), ToUTC(end))
    /\ UNCHANGED <<service, events, chk, book, recur, sug>>

FindInit ==
    /\ service \in BOOLEAN
    /\ events \in FindCalendars
    /\ lastCall = NoCall
    /\ chk = ChkIdle
    /\ book = [r \in Requests |-> BookIdle]
    /\ recur = RecurIdle
    /\ find = FindIdle
    /\ sug = SugIdle
    /\ AgentIdle

FindNext ==
    \/ \E cal \in CalendarIds, d \in FindDays, c \in FindClocks, dur \in FindDurations :
         FindCall(cal, LocalTime(d, c[1], c[2], c[3]), dur)
         /\ UNCHANGED agentVars
    \/ FindValidate /\ UNCHANGED agentVars
    \/ FindStep /\ UNCHANGED agentVars

FindSpec == FindInit /\ [][FindNext]_vars

\* The loop runs whenever it can: the tool is straight-line code in one thread
FindFairSpec == FindSpec /\ WF_vars(FindStep /\ UNCHANGED agentVars)

----------------------------------------------------------------------------
(* suggest_available_slots (main.py 352-380) and                           *)
(* GoogleCalendarService.suggest_time_slots (main.py 193-218)              *)

\* dt.replace(hour=h, minute=0, second=0, microsecond=0)
AtHour(t, h) == DayOf(t) * DaySec + h * HourSec

\* strftime('%I:%M %p'): 12-hour clock, minute, AM/PM
FormatClock(t) ==
    [hour12 |-> IF HourOf(t) % 12 = 0 THEN 12 ELSE HourOf(t) % 12,
     minute |-> MinuteOf(t), pm |-> HourOf(t) >= 12]

\* The 'display' of a suggestion: "<start clock> - <end clock>"
SlotDisplay(s, e) == [from |-> FormatClock(s), to |-> FormatClock(e)]

\* The seconds of the day a formatted clock time names
ReadClock(c) == ((c.hour12 % 12) + (IF c.pm THEN 12 ELSE 0)) * HourSec + c.minute * MinuteSec

\* Variant of the loop test: the duration is left out
SugInWindowNoDuration(cur, dur, endOfDay) == cur <= endOfDay

\* Line 204: the loop test
SugInWindow(cur, dur, endOfDay) == cur + dur * MinuteSec <= endOfDay

\* Variant of the break test: one suggestion too many
SugFullLate(suggestions) == Len(suggestions) > MaxSuggestions

\* Line 215: the break test
SugFull(suggestions) == Len(suggestions) >= MaxSuggestions

\* parse_time(date): an aware local datetime (any clock time), or None
SugTargets ==
    {LocalTime(7, 0, 0, 0), LocalTime(7, 14, 20, 15), LocalTime(12, 9, 0, 0)}
SugDurations == {-30, 0, 1, 45, 60, 450, 480, 481}
\* Events on the calendar before the call (UTC)
MondayEarly ==
    [id |-> 1, cal |-> "primary", start |-> ToUTC(LocalTime(7, 9, 30, 0)),
     end |-> ToUTC(LocalTime(7, 10, 30, 0)), by |-> <<"seed", 0>>]
MondayLate ==
    [id |-> 2, cal |-> "primary", start |-> ToUTC(LocalTime(7, 12, 0, 0)),
     end |-> ToUTC(LocalTime(7, 17, 0, 0)), by |-> <<"seed", 0>>]
MondayAllDay ==
    [id |-> 1, cal |-> "primary", start |-> ToUTC(LocalTime(7, 0, 0, 0)),
     end |-> ToUTC(LocalTime(8, 0, 0, 0)), by |-> <<"seed", 0>>]
SugCalendars == {{}, {MondayEarly}, {MondayEarly, MondayLate}, {MondayAllDay}}
\* Provider failures during one call of suggest_time_slots
MaxSugErrors == 1

\* Lines 361-364: the service guard, then the session's calendar id is read
SugCall(cal, target, dur) ==
    /\ sug.pc = "idle"
    /\ sug' =
          [pc |-> IF service THEN "validate" ELSE "done",
           cal |-> cal, target |-> target, dur |-> dur, cur |-> 0,
           suggestions |-> <<>>, nErrors |-> 0,
           result |-> IF service THEN NoResult ELSE [kind |-> "NotConnected"]]
    /\ UNCHANGED <<service, events, lastCall, chk, book, recur, find>>

\* Lines 366-374 and 198-202: validate_calendar_access, parse_time, then the
\* cursor of suggest_time_slots starts at start_of_day
SugValidate ==
    /\ sug.pc = "validate"
    /\ \E accessOk \in BOOLEAN :
        sug' = IF ~accessOk
               THEN [sug EXCEPT !.pc = "done", !.result = [kind |-> "AccessDenied"]]
               ELSE IF sug.target = NoneTime
               THEN [sug EXCEPT !.pc = "done", !.result = [kind |-> "Unparsable"]]
               ELSE [sug EXCEPT !.pc = "scan",
                                !.cur = AtHour(sug.target, WORK_HOURS_START)]
    /\ UNCHANGED <<service, events, lastCall, chk, book, recur, find>>

\* Lines 376-380: the tool's result from the list of suggestions
SugResult(suggestions) ==
    IF suggestions # <<>>
    THEN [kind |-> "Slots", slots |-> suggestions]
    ELSE [kind |-> "NoSlots"]

\* Lines 204-218: the loop test and one pass through the loop body
SugStep ==
    /\ sug.pc = "scan"
    /\ LET endOfDay == AtHour(sug.target, WORK_HOURS_END)
           start == sug.cur
           end == start + sug.dur * MinuteSec
       IN IF ~SugInWindow(start, sug.dur, endOfDay)
          THEN /\ sug' = [sug EXCEPT !.pc = "done",
                                     !.result = SugResult(sug.suggestions)]
               /\ UNCHANGED lastCall
          ELSE \E respOk \in IF sug.nErrors < MaxSugErrors THEN BOOLEAN ELSE {TRUE} :
               LET avail == CheckAvailability(service, respOk,
                               ListEvents(sug.cal, ToUTC(start), ToUTC(end)))
                   list == IF avail
                           THEN Append(sug.suggestions, SlotDisplay(start, end))
                           ELSE sug.suggestions
               IN /\ sug' =
                       [sug EXCEPT !.suggestions = list,
                                   !.cur = start + SlotStepMinutes * MinuteSec,
                                   !.nErrors = IF respOk THEN @ ELSE @ + 1,
                                   !.pc = IF SugFull(list) THEN "done" ELSE "scan",
                                   !.result = IF SugFull(list)
                                              THEN SugResult(list) ELSE @]
                  /\ lastCall' = CheckCall(service, sug.cal, ToUTC(start), ToUTC(end))
    /\ UNCHANGED <<service, events, chk, book, recur, find>>

SugInit ==
    /\ service \in BOOLEAN
    /\ events \in SugCalendars
    /\ lastCall = NoCall
    /\ chk = ChkIdle
    /\ book = [r \in Requests |-> BookIdle]
    /\ recur = RecurIdle
    /\ find = FindIdle
    /\ sug = SugIdle
    /\ AgentIdle

SugNext ==
    \/ \E cal \in CalendarIds, target \in SugTargets \cup {NoneTime},
          dur \in SugDurations :
         SugCall(cal, target, dur)
         /\ UNCHANGED agentVars
    \/ SugValidate /\ UNCHANGED agentVars
    \/ SugStep /\ UNCHANGED agentVars

SugSpec == SugInit /\ [][SugNext]_vars

----------------------------------------------------------------------------
(* tool_node (main.py 553-566): the tool calls of the agent's last message  *)
(* are run one after the other, each tool to completion                     *)

\* tools (main.py 544): the names in tool_map
ToolNames ==
    {"find_next_available_slot", "suggest_available_slots", "book_appointment",
     "book_recurring_appointment", "validate_calendar_setup"}

\* state["messages"][-1].tool_calls: the names called, in order; the model
\* may name a tool that does not exist
ToolCallLists ==
    {<<"book_appointment">>, <<"book_recurring_appointment">>,
     <<"find_next_available_slot">>, <<"suggest_available_slots">>,
     <<"validate_calendar_setup">>, <<"delete_event">>,
     <<"find_next_available_slot", "book_appointment">>,
     <<"book_appointment", "book_recurring_appointment">>,
     <<"delete_event", "suggest_available_slots">>,
     <<"suggest_available_slots", "validate_calendar_setup">>}

\* Events on the calendar before the agent turn (UTC)
ToolCalendars == {{}, {MondayEarly}}

\* tool_node is entered with the tool calls of the last message
ToolNodeStart(calls) ==
    /\ node.pc = "idle"
    /\ node' = [pc |-> "dispatch", calls |-> calls, i |-> 1, outputs |-> <<>>]
    /\ UNCHANGED <<service, events, lastCall, chk, book, recur, find, sug, conv, chatVars>>

\* The for loop goes to the next call with the outputs so far; after the last
\* call tool_node returns them
ToolNodeAdvance(n, outputs) ==
    [n EXCEPT !.outputs = outputs, !.i = @ + 1,
              !.pc = IF n.i < Len(n.calls) THEN "dispatch" ELSE "done"]

\* ToolMessage(content=str(output), tool_call_id=call["id"]) appended
ToolMessageAppended(n, content) ==
    Append(n.outputs, [tool_call_id |-> n.i, content |-> content])

\* Line 559: a call whose name is not in tool_map is passed over
ToolNodeSkip ==
    /\ node.pc = "dispatch"
    /\ node.calls[node.i] \notin ToolNames
    /\ node' = ToolNodeAdvance(node, node.outputs)
    /\ UNCHANGED <<service, events, lastCall, chk, book, recur, find, sug, conv, chatVars>>

\* Line 561: tool_map[name].invoke(args) enters the tool
ToolNodeInvoke(name) ==
    /\ node.pc = "dispatch"
    /\ node.calls[node.i] = name
    /\ node' = [node EXCEPT !.pc = "running"]
    /\ UNCHANGED <<conv, chatVars>>

\* validate_calendar_setup (main.py 519-535), run in one step: the service
\* guard, then validate_calendar_access of the calendar cal; both answers
\* name the calendar
ToolNodeValidateSetup(cal) ==
    /\ node.pc = "dispatch"
    /\ node.calls[node.i] = "validate_calendar_setup"
    /\ \E accessOk \in BOOLEAN :
        node' = ToolNodeAdvance(node, ToolMessageAppended(node,
                    IF ~service THEN [kind |-> "NotConnected"]
                    ELSE IF accessOk
                    THEN [kind |-> "SetupValid", calendar_id |-> cal]
                    ELSE [kind |-> "AccessDenied", calendar_id |-> cal]))
    /\ UNCHANGED <<service, events, lastCall, chk, book, recur, find, sug, conv, chatVars>>

\* The state of the tool that is running
ToolRecord(name) ==
    CASE name = "book_appointment" -> book[1]
      [] name = "book_recurring_appointment" -> recur
      [] name = "find_next_available_slot" -> find
      [] OTHER -> sug

\* Lines 561 and 564: the tool returned; its result becomes a ToolMessage
ToolNodeCollect ==
    /\ node.pc = "running"
    /\ LET rec == ToolRecord(node.calls[node.i])
       IN /\ rec.pc = "done"
          /\ node' = ToolNodeAdvance(node, ToolMessageAppended(node,
                        IF rec.result.kind = "Raised"
                        THEN [kind |-> "ToolError", tool |-> node.calls[node.i]]
                        ELSE rec.result))
    /\ book' = [book EXCEPT ![1] = BookIdle]
    /\ recur' = RecurIdle
    /\ find' = FindIdle
    /\ sug' = SugIdle
    /\ lastCall' = NoCall
    /\ UNCHANGED <<service, events, chk, conv, chatVars>>

\* Variant of the invocation: no try around it, the exception leaves tool_node
ToolNodeRaiseUncaught ==
    /\ node.pc \in {"dispatch", "running"}
    /\ node.calls[node.i] \in ToolNames
    /\ node.pc = "running" => ToolRecord(node.calls[node.i]).pc # "done"
    /\ node' = [node EXCEPT !.pc = "crashed"]
    /\ UNCHANGED <<service, events, lastCall, chk, book, recur, find, sug, conv, chatVars>>

\* Lines 560-564: invoke raised (the arguments failed validation, or an
\* exception left the tool before it returned); the except clause makes the
\* output "Error running tool <name>: ..."
ToolNodeRaise ==
    /\ node.pc \in {"dispatch", "running"}
    /\ node.calls[node.i] \in ToolNames
    /\ node.pc = "running" => ToolRecord(node.calls[node.i]).pc # "done"
    /\ node' = ToolNodeAdvance(node, ToolMessageAppended(node,
                    [kind |-> "ToolError", tool |-> node.calls[node.i]]))
    /\ book' = [book EXCEPT ![1] = BookIdle]
    /\ recur' = RecurIdle
    /\ find' = FindIdle
    /\ sug' = SugIdle
    /\ lastCall' = NoCall
    /\ UNCHANGED <<service, events, chk, conv, chatVars>>

ToolInit ==
    /\ service \in BOOLEAN
    /\ events \in ToolCalendars
    /\ lastCall = NoCall
    /\ chk = ChkIdle
    /\ book = [r \in Requests |-> BookIdle]
    /\ recur = RecurIdle
    /\ find = FindIdle
    /\ sug = SugIdle
    /\ AgentIdle

ToolNext ==
    \/ \E calls \in ToolCallLists : ToolNodeStart(calls)
    \/ ToolNodeSkip
    \/ \E start \in {LocalTime(7, 10, 0, 0), NoneTime} :
         ToolNodeInvoke("book_appointment") /\ BookCall(1, "primary", start, 60)
    \/ \E args \in {<<14, <<"mon">>, <<10, 0>>>>, <<NoneTime, <<"mon">>, <<10, 0>>>>,
                     <<14, <<"someday">>, <<10, 0>>>>, <<14, <<"mon">>, BadTime>>,
                     <<6, <<"mon">>, <<10, 0>>>>} :
         /\ ToolNodeInvoke("book_recurring_appointment")
         /\ RecurCall("primary", 7, args[1], args[2], <<args[3], <<11, 0>>>>)
    \/ /\ ToolNodeInvoke("find_next_available_slot")
       /\ FindCall("primary", LocalTime(11, 16, 40, 0), 60)
    \/ \E target \in {LocalTime(7, 0, 0, 0), NoneTime} :
         ToolNodeInvoke("suggest_available_slots") /\ SugCall("primary", target, 450)
    \/ ToolNodeValidateSetup("primary")
    \/ BookValidate(1) /\ UNCHANGED agentVars
    \/ BookCheck(1) /\ UNCHANGED agentVars
    \/ BookCreate(1) /\ UNCHANGED agentVars
    \/ RecurValidate /\ UNCHANGED agentVars
    \/ RecurCheck /\ UNCHANGED agentVars
    \/ RecurCreate /\ UNCHANGED agentVars
    \/ FindValidate /\ UNCHANGED agentVars
    \/ FindStep /\ UNCHANGED agentVars
    \/ SugValidate /\ UNCHANGED agentVars
    \/ SugStep /\ UNCHANGED agentVars
    \/ ToolNodeCollect
    \/ ToolNodeRaise

ToolSpec == ToolInit /\ [][ToolNext]_vars

----------------------------------------------------------------------------
(* chat_endpoint (main.py 615-670), the session store (610-613) and the     *)
(* calendar id kept in session_local (main.py 34, 251-257).  The handler is *)
(* an async function without an await: requests are served one at a time.   *)

\* Requests served in one run
MaxRequests == 2
\* request.calendar_id: a calendar id, or "" for none
ChatCalendarIds == {"", "primary", "team"}
\* What the model decides in one agent turn of a request: the names of the
\* tools called, and the calendar_id argument given to
\* validate_calendar_setup ("" for none)
ChatToolCalls ==
    {[tool_calls |-> <<"book_appointment">>, calendar_id |-> ""],
     [tool_calls |-> <<"book_recurring_appointment">>, calendar_id |-> ""],
     [tool_calls |-> <<"find_next_available_slot">>, calendar_id |-> ""],
     [tool_calls |-> <<"suggest_available_slots">>, calendar_id |-> ""],
     [tool_calls |-> <<"validate_calendar_setup">>, calendar_id |-> ""],
     [tool_calls |-> <<"validate_calendar_setup">>, calendar_id |-> "team"]}

\* The agent turns in which the model may only book
ChatBookingCalls == {c \in ChatToolCalls : c.tool_calls = <<"book_appointment">>}

\* Variant of the lookup: the value put into session_local is not seen
GetCurrentCalendarIdDefault == "primary"

\* get_current_calendar_id(): getattr(session_local, 'calendar_id', 'primary')
GetCurrentCalendarId ==
    IF session_local.has THEN session_local.calendar_id ELSE "primary"

\* Variant of the copy: the list itself is handed out
ListAlias(ref) == [ref |-> ref, heap |-> heap]

\* list.copy(): a new list object with the same elements
ListCopy(ref) == [ref |-> Len(heap) + 1, heap |-> Append(heap, heap[ref])]

\* Lines 616-638: the calendar id is put into session_local, the session is
\* created on first use, the user message is appended to its list, and
\* agent.invoke starts on the messages
ChatReceive(sid, calId) ==
    /\ chat.pc \in {"idle", "responded", "failed"}
    /\ chat.n < MaxRequests
    /\ LET cal == IF calId = "" THEN "primary" ELSE calId
           fresh == ~sessions[sid].present
           copy == ListCopy(1)
           ref == IF fresh THEN copy.ref ELSE sessions[sid].messages
           lists == IF fresh THEN copy.heap ELSE heap
           human == [type |-> "human", n |-> chat.n + 1]
       IN /\ session_local' = [has |-> TRUE, calendar_id |-> cal]
          /\ sessions' = [sessions EXCEPT ![sid] =
                 [present |-> TRUE, messages |-> ref, calendar_id |-> cal]]
          /\ heap' = [lists EXCEPT ![ref] = Append(@, human)]
          /\ chat' = [pc |-> "agent", n |-> chat.n + 1, session_id |-> sid,
                      calendar_id |-> cal, fresh |-> fresh,
                      before |-> IF fresh THEN <<>> ELSE heap[ref],
                      messages |-> Append(lists[ref], human),
                      created |-> FALSE,
                      response |-> [booking_made |-> FALSE]]
    /\ UNCHANGED <<service, events, lastCall, chk, book, recur, find, sug, node, conv>>

\* agent_node (550-551): the model answers with tool calls out of toolCalls,
\* or with its final message; at most one round of tool calls per request
ChatAgentNode(toolCalls) ==
    /\ chat.pc = "agent"
    /\ \/ /\ chat.messages[Len(chat.messages)].type = "human"
          /\ \E call \in toolCalls :
                chat' = [chat EXCEPT !.pc = "tools", !.messages = Append(@,
                            [type |-> "ai", tool_calls |-> call.tool_calls,
                             calendar_id |-> call.calendar_id])]
       \/ chat' = [chat EXCEPT !.pc = "respond", !.messages = Append(@,
                        [type |-> "ai", tool_calls |-> <<>>, calendar_id |-> ""])]
    /\ UNCHANGED <<service, events, lastCall, chk, book, recur, find, sug, node, conv,
                   sessions, session_local, heap>>

\* Lines 668-670: agent.invoke raised (the model call failed); HTTP 500
ChatAgentRaises ==
    /\ chat.pc = "agent"
    /\ chat' = [chat EXCEPT !.pc = "failed"]
    /\ UNCHANGED <<service, events, lastCall, chk, book, recur, find, sug, node, conv,
                   sessions, session_local, heap>>

\* The last message of the graph state: the AIMessage with the tool calls
ChatLastMessage == chat.messages[Len(chat.messages)]

\* tool_node returned: its ToolMessages are added to the graph state
\* (add_messages) and the graph goes back to agent_node
ChatToolsReturn ==
    /\ chat.pc = "tools"
    /\ node.pc = "done"
    /\ chat' = [chat EXCEPT
            !.pc = "agent",
            !.messages = @ \o [k \in 1..Len(node.outputs) |->
                                [type |-> "tool", content |-> node.outputs[k].content]],
            !.created = @ \/ \E k \in 1..Len(node.outputs) :
                                node.outputs[k].content.kind \in {"Created", "Success"}]
    /\ node' = NodeIdle
    /\ UNCHANGED <<service, events, lastCall, chk, book, recur, find, sug, conv,
                   sessions, session_local, heap>>

\* Lines 649-660: booking_made and booking_details from the last ToolMessage
\* of result["messages"]; only the JSON of a successful booking has "success"
BookingMade(messages) ==
    LET tool_messages == SelectSeq(messages, LAMBDA m : m.type = "tool")
    IN IF tool_messages = <<>> THEN [booking_made |-> FALSE]
       ELSE LET last == tool_messages[Len(tool_messages)].content
            IN IF last.kind \in {"Created", "Success"}
               THEN [booking_made |-> TRUE, booking_details |-> last]
               ELSE [booking_made |-> FALSE]

\* Lines 640-666: the session's list is replaced by result["messages"], a
\* list of its own, and the response is built
ChatRespond ==
    /\ chat.pc = "respond"
    /\ heap' = Append(heap, chat.messages)
    /\ sessions' = [sessions EXCEPT ![chat.session_id].messages = Len(heap) + 1]
    /\ chat' = [chat EXCEPT !.pc = "responded",
                            !.response = BookingMade(chat.messages)]
    /\ UNCHANGED <<service, events, lastCall, chk, book, recur, find, sug, node, conv,
                   session_local>>

ChatInit ==
    /\ service \in BOOLEAN
    /\ events \in ToolCalendars
    /\ lastCall = NoCall
    /\ chk = ChkIdle
    /\ book = [r \in Requests |-> BookIdle]
    /\ recur = RecurIdle
    /\ find = FindIdle
    /\ sug = SugIdle
    /\ AgentIdle

\* Requests of two sessions; the model may call book_appointment
ChatNext ==
    \/ \E sid \in SessionIds, calId \in ChatCalendarIds : ChatReceive(sid, calId)
    \/ ChatAgentNode(ChatBookingCalls)
    \/ ChatAgentRaises
    \/ chat.pc = "tools" /\ ToolNodeStart(ChatLastMessage.tool_calls)
    \/ /\ ToolNodeInvoke("book_appointment")
       /\ BookCall(1, GetCurrentCalendarId, LocalTime(7, 10, 0, 0), 60)
    \/ BookValidate(1) /\ UNCHANGED agentVars
    \/ BookCheck(1) /\ UNCHANGED agentVars
    \/ BookCreate(1) /\ UNCHANGED agentVars
    \/ ToolNodeCollect
    \/ ToolNodeRaise
    \/ ChatToolsReturn
    \/ ChatRespond

ChatSpec == ChatInit /\ [][ChatNext]_vars

\* Requests of one session that name different calendars; the model may call
\* any of the five tools, and its own calls succeed
CalendarNext ==
    \/ \E calId \in ChatCalendarIds : ChatReceive("A", calId)
    \/ ChatAgentNode(ChatToolCalls)
    \/ chat.pc = "tools" /\ ToolNodeStart(ChatLastMessage.tool_calls)
    \/ /\ ToolNodeInvoke("book_appointment")
       /\ BookCall(1, GetCurrentCalendarId, LocalTime(7, 10, 0, 0), 60)
    \/ /\ ToolNodeInvoke("book_recurring_appointment")
       /\ RecurCall(GetCurrentCalendarId, 7, 7, <<"mon">>, <<<<10, 0>>, <<11, 0>>>>)
    \/ /\ ToolNodeInvoke("find_next_available_slot")
       /\ FindCall(GetCurrentCalendarId, LocalTime(7, 10, 0, 0), 480)
    \/ /\ ToolNodeInvoke("suggest_available_slots")
       /\ SugCall(GetCurrentCalendarId, LocalTime(7, 0, 0, 0), 450)
    \/ ToolNodeValidateSetup(IF ChatLastMessage.calendar_id = ""
                             THEN GetCurrentCalendarId
                             ELSE ChatLastMessage.calendar_id)
    \/ BookValidate(1) /\ UNCHANGED agentVars
    \/ BookCheck(1) /\ UNCHANGED agentVars
    \/ BookCreate(1) /\ UNCHANGED agentVars
    \/ RecurValidate /\ UNCHANGED agentVars
    \/ RecurCheck /\ UNCHANGED agentVars
    \/ RecurCreate /\ UNCHANGED agentVars
    \/ FindValidate /\ UNCHANGED agentVars
    \/ FindStep /\ UNCHANGED agentVars
    \/ SugValidate /\ UNCHANGED agentVars
    \/ SugStep /\ UNCHANGED agentVars
    \/ ToolNodeCollect
    \/ ToolNodeRaise
    \/ ChatToolsReturn
    \/ ChatRespond

CalendarSpec == ChatInit /\ [][CalendarNext]_vars

----------------------------------------------------------------------------
(* Timezone conversion: tz.localize(...).astimezone(pytz.utc) as in         *)
(* generate_recurring_dates (main.py 289-294), and astimezone(tz) back      *)

\* Local instants converted: days of one week, clock readings on both sides
\* of 05:30, where the UTC date is the day before
TzInstants ==
    {LocalTime(d, c[1], c[2], c[3]) :
        d \in 7..13,
        c \in {<<0, 0, 0>>, <<5, 29, 59>>, <<5, 30, 0>>, <<9, 0, 30>>,
               <<10, 0, 0>>, <<17, 0, 0>>, <<23, 59, 59>>}}

\* tz.localize(naive): a local instant
TzLocalize(t) ==
    /\ conv.pc = "idle"
    /\ conv' = [pc |-> "local", local |-> t]
    /\ UNCHANGED <<service, events, lastCall, chk, book, recur, find, sug, node, chatVars>>

\* .astimezone(pytz.utc)
TzToUTC ==
    /\ conv.pc = "local"
    /\ conv' = [pc |-> "utc", local |-> conv.local, utc |-> ToUTC(conv.local)]
    /\ UNCHANGED <<service, events, lastCall, chk, book, recur, find, sug, node, chatVars>>

\* .astimezone(tz)
TzToLocal ==
    /\ conv.pc = "utc"
    /\ conv' = [pc |-> "back", local |-> conv.local, utc |-> conv.utc,
                back |-> FromUTC(conv.utc)]
    /\ UNCHANGED <<service, events, lastCall, chk, book, recur, find, sug, node, chatVars>>

TzInit ==
    /\ service \in BOOLEAN
    /\ events = {}
    /\ lastCall = NoCall
    /\ chk = ChkIdle
    /\ book = [r \in Requests |-> BookIdle]
    /\ recur = RecurIdle
    /\ find = FindIdle
    /\ sug = SugIdle
    /\ AgentIdle

TzNext ==
    \/ \E t \in TzInstants : TzLocalize(t)
    \/ TzToUTC
    \/ TzToLocal

TzSpec == TzInit /\ [][TzNext]_vars

----------------------------------------------------------------------------
(* Properties of check_availability and book_appointment *)

\* C1: check_availability returns True only when the provider's event list
\* for the range and calendar is empty; it returns False (never raises) when
\* the provider reports an event, when the provider call fails, and when no
\* service is connected, in which case no provider call is made.
C1_CheckAvailabilityFailClosed ==
    chk.pc = "returned" =>
        /\ chk.result \in BOOLEAN
        /\ (chk.result <=> (chk.svc /\ chk.respOk /\ chk.items = {}))
        /\ (chk.items # {} => ~chk.result)
        /\ (~chk.respOk => ~chk.result)
        /\ (~chk.svc => ~chk.result /\ lastCall = NoCall)

\* C1 witness: the provider call failed on a free range and the result is False
C1_ProviderErrorSeen ==
    /\ chk.pc = "returned"
    /\ chk.svc
    /\ ~chk.respOk
    /\ chk.items = {}
    /\ chk.result = FALSE

\* C2 (as claimed): no events.list or events.insert call is made for a range
\* with start >= end.
C2_NoProviderCallForEmptyRange ==
    lastCall.op \in {"list", "insert"} => lastCall.tmin < lastCall.tmax

\* The events request r created
CreatedBy(r) == {e \in events : e.by = <<"req", r>>}

\* C3: nothing stands between a passed check and the create call: the step
\* out of "create" whose insert succeeds adds the event and reports success
\* whatever the calendar holds by then, so two requests that both passed the
\* check both create.
C3_CreateDoesNotLookAgain ==
    [][\A r \in Requests :
        (book[r].pc = "create" /\ book'[r].pc = "done" /\ book'[r].insertOk) =>
            /\ book'[r].result.kind = "Created"
            /\ Cardinality(events') = Cardinality(events) + 1
            /\ \E e \in events' \ events :
                /\ e.by = <<"req", r>>
                /\ e.id = book'[r].result.id
                /\ e.start = ToUTC(book[r].start)
                /\ e.end = ToUTC(BookEnd(book[r]))]_vars

\* C3 witness: both requests created an event and the two events overlap
C3_DoubleBooked ==
    /\ book[1].pc = "done" /\ book[1].result.kind = "Created"
    /\ book[2].pc = "done" /\ book[2].result.kind = "Created"
    /\ \E e1 \in CreatedBy(1), e2 \in CreatedBy(2) :
        /\ e1.cal = e2.cal
        /\ e1.start < e1.end
        /\ e2.start < e2.end
        /\ Overlap(e1.start, e1.end, e2.start, e2.end)

\* C4: when the check inside book_appointment returned False the call ends
\* with the not-available failure, makes no insert call and adds no event.
C4_NoCreateAfterFailedCheck ==
    \A r \in Requests :
        (book[r].pc \in {"create", "done"} /\ book[r].nList = 1 /\ ~book[r].avail) =>
            /\ book[r].pc = "done"
            /\ book[r].result.kind = "NotAvailable"
            /\ book[r].nInsert = 0
            /\ CreatedBy(r) = {}

\* C4 witness: the slot was taken by another writer and the call was refused
C4_RefusedAfterExternalWrite ==
    \E r \in Requests :
        /\ book[r].pc = "done"
        /\ book[r].result.kind = "NotAvailable"
        /\ book[r].dur > 0
        /\ \E e \in events :
            /\ e.by = <<"ext", 0>>
            /\ e.cal = book[r].cal
            /\ Overlap(e.start, e.end, ToUTC(book[r].start), ToUTC(BookEnd(book[r])))

\* C5: book_appointment reports success, with the provider's id and link, iff
\* the insert call succeeded; a passed check followed by a failed insert gives
\* the provider-error failure and no event.
C5_SuccessIffInserted ==
    \A r \in Requests :
        book[r].pc = "done" =>
            /\ (book[r].result.kind = "Created" <=>
                    (book[r].nInsert = 1 /\ book[r].insertOk))
            /\ (book[r].result.kind = "Created" =>
                    \E e \in CreatedBy(r) :
                        /\ e.id = book[r].result.id
                        /\ book[r].result.link = LinkOf(e.id))
            /\ ((book[r].avail /\ book[r].nInsert = 1 /\ ~book[r].insertOk) =>
                    /\ book[r].result.kind = "ProviderError"
                    /\ CreatedBy(r) = {})

\* C5 witness: the check passed, the insert failed
C5_InsertFailed ==
    \E r \in Requests :
        /\ book[r].pc = "done"
        /\ book[r].avail
        /\ book[r].nInsert = 1
        /\ ~book[r].insertOk
        /\ book[r].result.kind = "ProviderError"

----------------------------------------------------------------------------
(* Properties of create_multiple_events *)

\* The position in the batch of the occurrence with this date_str
OccIndex(date) == CHOOSE i \in 1..Len(recur.occs) : recur.occs[i].date_str = date
\* The entries of a result list are in the order of the batch
InBatchOrder(list) ==
    \A i, j \in 1..Len(list) :
        i < j => OccIndex(list[i].date) < OccIndex(list[j].date)
\* Occurrences whose attempt is over
RecurProcessed == IF recur.pc = "done" THEN Len(recur.occs) ELSE recur.idx - 1

\* C6: create_multiple_events attempts every occurrence exactly once whatever
\* happened to the earlier ones; each attempted occurrence is in exactly one of
\* the created and failed lists, so at the end len(created) + len(failed) is
\* the number of occurrences; both lists keep the order of the batch.
C6_BatchRunsToCompletion ==
    (recur.pc \in {"check", "create", "done"} /\ recur.occs # <<>>) =>
        /\ Len(recur.created) + Len(recur.failed) = RecurProcessed
        /\ \A i \in 1..Len(recur.occs) :
            /\ recur.nList[i] =
                 IF i <= RecurProcessed \/ (i = recur.idx /\ recur.pc = "create")
                 THEN 1 ELSE 0
            /\ recur.nInsert[i] <= 1
            /\ (i <= RecurProcessed =>
                    Cardinality({k \in 1..Len(recur.created) :
                                    recur.created[k].date = recur.occs[i].date_str})
                  + Cardinality({k \in 1..Len(recur.failed) :
                                    recur.failed[k].date = recur.occs[i].date_str}) = 1)
        /\ InBatchOrder(recur.created)
        /\ InBatchOrder(recur.failed)

\* C6 witness: a finished batch in which an occurrence was created after an
\* earlier one was unavailable and another one failed at the insert
C6_CreatedAfterFailures ==
    /\ recur.pc = "done"
    /\ Len(recur.occs) >= 3
    /\ \E i \in 1..Len(recur.failed), j \in 1..Len(recur.failed),
          k \in 1..Len(recur.created) :
        /\ recur.failed[i].reason = "Time slot not available"
        /\ recur.failed[j].reason = "Failed to create event"
        /\ OccIndex(recur.failed[i].date) < OccIndex(recur.created[k].date)
        /\ OccIndex(recur.failed[j].date) < OccIndex(recur.created[k].date)

----------------------------------------------------------------------------
(* Properties of find_next_available_slot *)

\* 17:00 local on the day of t
EndOfWorkOn(t) == DayOf(t) * DaySec + WORK_HOURS_END * HourSec

\* C7 (as claimed): for every duration of at least 1 minute a returned slot
\* starts on a weekday, inside [09:00, 17:00) local, and ends no later than
\* 17:00 local on the day it starts.
C7_SlotInsideWorkingHours ==
    (find.pc = "done" /\ find.result.kind = "Slot" /\ find.dur >= 1) =>
        LET s == ReadSlotStart(find.result.start)
            e == s + find.result.dur * MinuteSec
        IN /\ Weekday(s) < 5
           /\ WORK_HOURS_START <= HourOf(s)
           /\ HourOf(s) < WORK_HOURS_END
           /\ e <= EndOfWorkOn(s)

\* C8: find_next_available_slot terminates; a search in which no check
\* succeeded ends with the not-found result; no candidate that is checked or
\* returned starts at or after now + 30 days.
C8_FindTerminatesInsideHorizon ==
    /\ [](find.pc \in {"scan", "done"} /\ find.checked
            => find.lastStart < FindLimit(find))
    /\ [](find.pc = "done" /\ find.result.kind = "Slot"
            => ReadSlotStart(find.result.start) < FindLimit(find))
    /\ [](find.pc = "done" /\ find.checked /\ ~find.lastAvail
            => find.result.kind = "NotFound")
    /\ [](find.pc = "done" /\ find.result.kind = "Slot"
            => find.checked /\ find.lastAvail)
    /\ (find.pc = "scan" ~> find.pc = "done")

\* C8 witness: the whole horizon was scanned on a fully booked calendar and
\* the result is not-found
C8_HorizonExhausted ==
    /\ find.pc = "done"
    /\ find.result.kind = "NotFound"
    /\ find.checked
    /\ events = {FullyBooked}
    /\ find.cal = "primary"
    /\ find.lastStart >= FindLimit(find) - 3 * DaySec

----------------------------------------------------------------------------
(* Properties of suggest_time_slots *)

\* The local range a suggestion names on the day asked for
SlotStart(d) == DayOf(sug.target) * DaySec + ReadClock(d.from)
SlotEnd(d) == DayOf(sug.target) * DaySec + ReadClock(d.to)
\* No event of the calendar intersects the local range [s, e)
FreeOn(cal, s, e) ==
    \A ev \in events :
        ev.cal = cal => ~Overlap(ev.start, ev.end, ToUTC(s), ToUTC(e))

\* C9: for a duration of at least 1 minute suggest_time_slots returns at most
\* 5 slots; each starts at or after 09:00 and ends at or before 17:00 local on
\* the day asked for, and none overlaps an event of the calendar.
C9_SuggestionsInsideWindowAndFree ==
    (sug.pc \in {"scan", "done"} /\ sug.dur >= 1) =>
        /\ Len(sug.suggestions) <= MaxSuggestions
        /\ \A i \in 1..Len(sug.suggestions) :
            LET s == SlotStart(sug.suggestions[i])
                e == SlotEnd(sug.suggestions[i])
            IN /\ s >= AtHour(sug.target, WORK_HOURS_START)
               /\ e <= AtHour(sug.target, WORK_HOURS_END)
               /\ e = s + sug.dur * MinuteSec
               /\ FreeOn(sug.cal, s, e)
        /\ (sug.pc = "done" /\ sug.result.kind = "Slots"
                => sug.result.slots = sug.suggestions)

\* C9 witness: five slots were returned on a day that has an event
C9_FiveSlotsAroundAnEvent ==
    /\ sug.pc = "done"
    /\ sug.dur >= 1
    /\ sug.result.kind = "Slots"
    /\ Len(sug.result.slots) = MaxSuggestions
    /\ \E ev \in events : ev.cal = sug.cal /\ DayOf(FromUTC(ev.start)) = DayOf(sug.target)

RECURSIVE FirstFree(_, _)
\* The first n free candidates among the cursor positions 09:00 + 30k minutes,
\* in ascending order, while the candidate ends by 17:00
FirstFree(k, n) ==
    LET s == AtHour(sug.target, WORK_HOURS_START) + k * SlotStepMinutes * MinuteSec
        e == s + sug.dur * MinuteSec
    IN IF n = 0 \/ e > AtHour(sug.target, WORK_HOURS_END) THEN <<>>
       ELSE IF FreeOn(sug.cal, s, e)
            THEN <<SlotDisplay(s, e)>> \o FirstFree(k + 1, n - 1)
            ELSE FirstFree(k + 1, n)

AM(h, m) == [hour12 |-> h, minute |-> m, pm |-> FALSE]
PM(h, m) == [hour12 |-> h, minute |-> m, pm |-> TRUE]

----------------------------------------------------------------------------
(* Properties of generate_recurring_dates and the recurring batch *)

\* The dates of the range whose weekday is one of the requested weekdays
MatchingDays ==
    {d \in recur.today..recur.endDay : InList(d % 7, recur.weekdays)}
\* book_recurring_appointment got past its guards to generate_recurring_dates
RecurGenerated ==
    /\ recur.pc \in {"check", "create", "done"}
    /\ recur.result.kind \in {"none", "NoMatch", "Success", "NoneCreated"}

\* C11: generate_recurring_dates returns exactly one occurrence for every date
\* from today to the range end whose weekday is requested (a weekday listed
\* twice still gives one), none for any other date, in strictly ascending date
\* order; 14 consecutive days with Tuesday and Thursday give 4 occurrences.
C11_OneOccurrencePerMatchingDate ==
    LET OccDays == [i \in 1..Len(recur.occs) |-> recur.occs[i].date_str[2]]
    IN RecurGenerated =>
        /\ {OccDays[i] : i \in 1..Len(recur.occs)} = MatchingDays
        /\ \A i, j \in 1..Len(recur.occs) : i < j => OccDays[i] < OccDays[j]
        /\ \A i \in 1..Len(recur.occs) :
              recur.occs[i].date_str[1] = OccDays[i] % 7
        /\ recur.result.kind = "NoMatch" <=> MatchingDays = {}
        /\ (/\ recur.endDay = recur.today + 13
            /\ {recur.weekdays[i] : i \in 1..Len(recur.weekdays)} = {1, 3})
           => Len(recur.occs) = 4

\* Tuesday and Thursday over 14 days: four occurrences
C11_FourInTwoWeeks ==
    /\ recur.pc = "check"
    /\ recur.weekdays = <<1, 3>>
    /\ recur.endDay = recur.today + 13
    /\ Len(recur.occs) = 4

\* C12: when the daily start is before the daily end, every occurrence's range
\* is free on the calendar before the batch and no provider call fails, every
\* occurrence is created and the failed list is empty (3 Mondays: 3 created,
\* 0 failed); an event the batch created never intersects the range of another
\* occurrence of the batch.
C12_FreeBatchAllCreated ==
    LET n == Len(recur.occs)
        freeBefore(i) ==
            \A e \in events :
                (e.cal = recur.cal /\ e.by[1] # "recur") =>
                    ~Overlap(e.start, e.end, recur.occs[i].start_utc,
                             recur.occs[i].end_utc)
    IN (/\ recur.pc \in {"check", "create", "done"}
        /\ n > 0
        /\ TimeOfDay(recur.st) < TimeOfDay(recur.et)) =>
          /\ \A e \in events, i \in 1..n :
                (e.cal = recur.cal /\ e.by[1] = "recur" /\ e.by[2] # i) =>
                    ~Overlap(e.start, e.end, recur.occs[i].start_utc,
                             recur.occs[i].end_utc)
          /\ (/\ recur.pc = "done"
              /\ recur.nErrors = 0
              /\ \A i \in 1..n : freeBefore(i)) =>
                /\ Len(recur.created) = n
                /\ recur.failed = <<>>
                /\ recur.result.kind = "Success"
                /\ recur.result.successCount = n
                /\ recur.result.totalCount = n

\* Three Mondays, all free, no provider failure: three events on the calendar
C12_ThreeMondaysCreated ==
    /\ recur.pc = "done"
    /\ recur.weekdays = <<0>>
    /\ recur.nErrors = 0
    /\ Len(recur.occs) = 3
    /\ Len(recur.created) = 3
    /\ recur.failed = <<>>
    /\ Cardinality({e \in events : e.by[1] = "recur"}) = 3

\* C13: whenever the batch had at least one occurrence, the result of
\* book_recurring_appointment reports how many of the occurrences were created
\* (also when none was) and carries, for each failed occurrence, its own reason
\* (slot not available, or the provider failed to create the event).
C13_ResultReportsCountsAndReasons ==
    (recur.pc = "done" /\ recur.occs # <<>>) =>
        /\ recur.result.kind \in {"Success", "NoneCreated"}
        /\ "successCount" \in DOMAIN recur.result
        /\ recur.result.successCount = Len(recur.created)
        /\ recur.result.totalCount = Len(recur.occs)
        /\ recur.result.failed = recur.failed

\* C15: when no date of the range matches a requested weekday (also when the
\* range end is before today) generate_recurring_dates returns the empty list
\* without raising, and book_recurring_appointment returns the no-match error
\* having made no availability query and no create call.
C15_NoMatchMakesNoProviderCall ==
    /\ (/\ recur.pc = "done"
        /\ recur.endDay # NoneTime
        /\ recur.weekdays # <<>>
        /\ recur.st # BadTime /\ recur.et # BadTime
        /\ MatchingDays = {}) =>
          recur.result.kind \in {"NotConnected", "AccessDenied", "NoMatch"}
    /\ (recur.pc # "idle" /\ recur.result.kind = "NoMatch") =>
          /\ recur.pc = "done"
          /\ recur.occs = <<>>
          /\ recur.nList = <<>> /\ recur.nInsert = <<>>
          /\ lastCall = NoCall
          /\ events \in RecurCalendars

\* The range ends the day before today: the no-match error
C15_RangeEndBeforeToday ==
    /\ recur.pc = "done"
    /\ recur.endDay < recur.today
    /\ recur.endDay # NoneTime
    /\ recur.result.kind = "NoMatch"
    /\ lastCall = NoCall

----------------------------------------------------------------------------
(* Properties of the timezone conversion *)

----------------------------------------------------------------------------
(* Properties of the scan of find_next_available_slot *)

\* C17: first fit.  When find_next_available_slot returns a slot (duration of
\* at least 1 minute, no provider failure during the search), no earlier
\* candidate exists that starts at or after now on a :00 or :30 boundary, on a
\* weekday at or after 09:00 with its end at or before 17:00, and is free; in
\* particular, when now is before 09:00 on a weekday and that day's 09:00
\* candidate is free, that candidate is the one returned.
C17_FirstFit ==
    LET eligible(c) ==
            /\ c >= find.now
            /\ Weekday(c) < 5
            /\ c + find.dur * MinuteSec <= EndOfWorkOn(c)
            /\ FreeOn(find.cal, c, c + find.dur * MinuteSec)
        today9 == LocalTime(DayOf(find.now), WORK_HOURS_START, 0, 0)
    IN (/\ find.pc = "done"
        /\ find.result.kind = "Slot"
        /\ find.dur >= 1
        /\ ~find.hadError) =>
          /\ \A d \in DayOf(find.now)..DayOf(find.lastStart),
                h \in WORK_HOURS_START..(WORK_HOURS_END - 1), m \in {0, 30} :
                (LocalTime(d, h, m, 0) < ReadSlotStart(find.result.start))
                    => ~eligible(LocalTime(d, h, m, 0))
          /\ (HourOf(find.now) < WORK_HOURS_START /\ eligible(today9)) =>
                find.result.start = FormatSlotStart(today9)

\* C18: every candidate find_next_available_slot passes to check_availability,
\* and so every slot it returns, starts at or after now exactly on a 30-minute
\* boundary (minute 0 or 30, second 0), for every now, also one whose minute
\* is 0 or 30 and whose seconds are not 0.
C18_CandidatesOnHalfHourGrid ==
    (find.pc \in {"scan", "done"} /\ find.checked /\ find.dur >= 1) =>
        /\ MinuteOf(find.lastStart) \in {0, SlotStepMinutes}
        /\ SecondOf(find.lastStart) = 0
        /\ find.lastStart >= find.now
        /\ lastCall.tmin = ToUTC(find.lastStart)

----------------------------------------------------------------------------
(* Properties of tool_node and of the tools run under it *)

\* The results a tool builds itself: its successes and its domain failures
ToolResultKinds ==
    {"NotConnected", "AccessDenied", "Unparsable", "NotAvailable", "ProviderError",
     "NoMatch", "Created", "Success", "NoneCreated", "Slot", "NotFound", "Slots",
     "NoSlots", "SetupValid"}

\* C14: no failure leaves tool_node as an exception.  Every call whose tool
\* exists gets exactly one ToolMessage, in call order; its content is either
\* a result the tool returned itself (not-available, provider error, access
\* denied, unparsable input, no match, or a success) or, when an exception
\* left the tool, an error message that names the tool; tool_node always
\* reaches its return.
C14_EveryDispatchedCallYieldsAMessage ==
    LET attempted == IF node.pc = "done" THEN Len(node.calls) ELSE node.i - 1
        dispatched == {j \in 1..attempted : node.calls[j] \in ToolNames}
    IN node.pc # "idle" =>
        /\ node.pc \in {"dispatch", "running", "done"}
        /\ Len(node.outputs) = Cardinality(dispatched)
        /\ {node.outputs[k].tool_call_id : k \in 1..Len(node.outputs)} = dispatched
        /\ \A k, l \in 1..Len(node.outputs) :
              k < l => node.outputs[k].tool_call_id < node.outputs[l].tool_call_id
        /\ \A k \in 1..Len(node.outputs) :
              LET out == node.outputs[k]
              IN \/ out.content.kind \in ToolResultKinds
                 \/ /\ out.content.kind = "ToolError"
                    /\ out.content.tool = node.calls[out.tool_call_id]
        /\ node.pc = "running" =>
              LET rec == ToolRecord(node.calls[node.i])
              IN rec.pc = "done" => rec.result.kind \in ToolResultKinds

\* Two calls in one message: the first tool raised, the second returned a
\* domain failure of its own; both have their message
C14_ErrorMessageThenDomainFailure ==
    /\ node.pc = "done"
    /\ Len(node.outputs) = 2
    /\ node.outputs[1].content = [kind |-> "ToolError", tool |-> node.calls[1]]
    /\ node.outputs[2].content.kind \in {"NotAvailable", "ProviderError"}

\* C19: no automatic retry.  One book_appointment call sends at most one
\* availability query and at most one insert, and exactly one insert when the
\* insert failed; one recurring batch sends at most one availability query
\* and at most one insert per occurrence, also when the call failed.
C19_NoAutomaticRetry ==
    /\ book[1].pc # "idle" =>
          /\ book[1].nList <= 1 /\ book[1].nInsert <= 1
          /\ book[1].result.kind = "ProviderError" =>
                book[1].nInsert = 1 /\ book[1].pc = "done"
    /\ (recur.pc # "idle" /\ recur.occs # <<>>) =>
          /\ \A i \in 1..Len(recur.occs) :
                recur.nList[i] <= 1 /\ recur.nInsert[i] <= 1
          /\ \A k \in 1..Len(recur.failed) :
                LET i == OccIndex(recur.failed[k].date)
                IN /\ recur.nList[i] = 1
                   /\ recur.nInsert[i] =
                        IF recur.failed[k].reason = "Failed to create event"
                        THEN 1 ELSE 0

\* One message with both tools: the single booking's insert failed once, and
\* in the batch one occurrence was refused and one insert failed, each once
C19_FailuresNotRetried ==
    /\ node.pc = "running"
    /\ node.outputs # <<>>
    /\ node.outputs[1].content.kind = "ProviderError"
    /\ recur.pc = "done"
    /\ \E k, l \in 1..Len(recur.failed) :
          /\ recur.failed[k].reason = "Time slot not available"
          /\ recur.failed[l].reason = "Failed to create event"

\* C20: guards come first.  When find_next_available_slot,
\* suggest_available_slots, book_appointment or book_recurring_appointment
\* ends with the not-connected, the access-denied or the unparsable-input
\* error, the invocation has made no events.list and no events.insert call;
\* without a service, and for a date or time that does not parse, the tool
\* ends with one of these errors.
C20_GuardErrorsBeforeProviderCalls ==
    LET guardError(rec) ==
            /\ rec.pc = "done"
            /\ rec.result.kind \in {"NotConnected", "AccessDenied", "Unparsable"}
        mustFail(rec, unparsable) ==
            (rec.pc = "done" /\ (~service \/ unparsable)) => guardError(rec)
    IN /\ guardError(book[1]) =>
            /\ lastCall = NoCall
            /\ book[1].nList = 0 /\ book[1].nInsert = 0
            /\ CreatedBy(1) = {}
       /\ guardError(recur) =>
            /\ lastCall = NoCall
            /\ recur.nList = <<>> /\ recur.nInsert = <<>>
            /\ {e \in events : e.by[1] = "recur"} = {}
       /\ guardError(find) => lastCall = NoCall /\ ~find.checked
       /\ guardError(sug) => lastCall = NoCall /\ sug.suggestions = <<>>
       /\ mustFail(book[1], book[1].pc = "done" /\ book[1].start = NoneTime)
       /\ mustFail(recur, /\ recur.pc = "done"
                          /\ \/ recur.endDay = NoneTime
                             \/ recur.weekdays = <<>>
                             \/ recur.st = BadTime \/ recur.et = BadTime)
       /\ mustFail(find, FALSE)
       /\ mustFail(sug, sug.pc = "done" /\ sug.target = NoneTime)

\* After a search that queried the provider, the booking of the same message
\* is refused by the access guard before any provider call of its own
C20_AccessDeniedAfterEarlierCalls ==
    /\ node.pc = "running"
    /\ node.outputs # <<>>
    /\ node.outputs[1].content.kind = "Slot"
    /\ book[1].pc = "done"
    /\ book[1].result.kind = "AccessDenied"
    /\ lastCall = NoCall

\* C21: with one request at a time, no other writer and start < end for every
\* range, create_event is called for a range only directly after an
\* availability query of the same calendar and range that returned without
\* error and empty, in the same operation; so the events on a calendar
\* (those created by book_appointment and create_multiple_events, and those
\* that were there before) never overlap each other.
C21_SequentialBookingsNeverOverlap ==
    /\ book[1].pc = "create" =>
          /\ book[1].nList = 1 /\ book[1].avail
          /\ lastCall = ListCall(book[1].cal, ToUTC(book[1].start),
                                 ToUTC(BookEnd(book[1])))
          /\ ListEvents(lastCall.cal, lastCall.tmin, lastCall.tmax) = {}
    /\ recur.pc = "create" =>
          /\ recur.nList[recur.idx] = 1
          /\ lastCall = ListCall(recur.cal, recur.occs[recur.idx].start_utc,
                                 recur.occs[recur.idx].end_utc)
          /\ ListEvents(lastCall.cal, lastCall.tmin, lastCall.tmax) = {}
    /\ \A e1, e2 \in events :
          (e1 # e2 /\ e1.cal = e2.cal) =>
              /\ e1.start < e1.end
              /\ ~Overlap(e1.start, e1.end, e2.start, e2.end)

\* A single booking and a batch in one message on a calendar with an earlier
\* event: the refused occurrence is the one the single booking had taken
C21_BatchAfterBookingOnSameSlot ==
    /\ recur.pc = "done"
    /\ CreatedBy(1) # {}
    /\ \E e \in events : e.by[1] = "recur"
    /\ \E k \in 1..Len(recur.failed) :
          /\ recur.failed[k].reason = "Time slot not available"
          /\ recur.nErrors = 0

----------------------------------------------------------------------------
(* Properties of chat_endpoint *)

\* C22: a response has booking_made = true only if a booking tool created an
\* event while serving that same request; a later request of the session
\* that calls no tool does not report the earlier booking again.
C22_BookingMadeOnlyForThisRequest ==
    (chat.pc = "responded" /\ chat.response.booking_made) => chat.created

\* C23 (as claimed): every provider call a tool makes while serving a request
\* (access validation, availability query, event creation) targets the
\* calendar_id of that request, "primary" when the request gives none.
C23_ProviderCallsTargetRequestCalendar ==
    chat.pc = "tools" =>
        /\ book[1].pc # "idle" => book[1].cal = chat.calendar_id
        /\ recur.pc # "idle" => recur.cal = chat.calendar_id
        /\ find.pc # "idle" => find.cal = chat.calendar_id
        /\ sug.pc # "idle" => sug.cal = chat.calendar_id
        /\ lastCall # NoCall => lastCall.cal = chat.calendar_id
        /\ node.pc # "idle" =>
              \A k \in 1..Len(node.outputs) :
                  "calendar_id" \in DOMAIN node.outputs[k].content =>
                      node.outputs[k].content.calendar_id = chat.calendar_id

\* C23 (amended): find_next_available_slot, suggest_available_slots,
\* book_appointment and book_recurring_appointment validate, query and
\* create on the calendar_id of the request being served ("primary" when it
\* gives none), never on that of an earlier request or session;
\* validate_calendar_setup validates the calendar_id given as its argument,
\* and the calendar_id of the request when it is called without one.
C23_ToolsTargetRequestCalendarOrArgument ==
    chat.pc = "tools" =>
        /\ chat.calendar_id = GetCurrentCalendarId
        /\ book[1].pc # "idle" => book[1].cal = chat.calendar_id
        /\ recur.pc # "idle" => recur.cal = chat.calendar_id
        /\ find.pc # "idle" => find.cal = chat.calendar_id
        /\ sug.pc # "idle" => sug.cal = chat.calendar_id
        /\ lastCall # NoCall => lastCall.cal = chat.calendar_id
        /\ node.pc # "idle" =>
              \A k \in 1..Len(node.outputs) :
                  "calendar_id" \in DOMAIN node.outputs[k].content =>
                      node.outputs[k].content.calendar_id =
                          IF ChatLastMessage.calendar_id = ""
                          THEN chat.calendar_id
                          ELSE ChatLastMessage.calendar_id

\* The first request booked on "primary"; the second names "team" and its
\* insert has gone to "team"
C23_SecondRequestOnAnotherCalendar ==
    /\ chat.pc = "tools"
    /\ chat.n = 2
    /\ chat.calendar_id = "team"
    /\ \E e \in events : e.cal = "primary" /\ e.by = <<"req", 1>>
    /\ lastCall.op = "insert"
    /\ lastCall.cal = "team"
    /\ \E e \in events : e.cal = "team" /\ e.by = <<"req", 1>>

\* C24: session isolation.  A request with session id A creates the entry
\* for A on first use from its own copy of initial_messages and changes only
\* the entry (history and calendar_id) stored under A; no two sessions share
\* a message list, and initial_messages stays as it was.
C24_SessionIsolation ==
    /\ [](/\ heap[1] = initial_messages
          /\ \A s \in SessionIds :
                sessions[s].present =>
                    /\ sessions[s].messages # 1
                    /\ heap[sessions[s].messages][1] = initial_messages[1]
                    /\ \A t \in SessionIds \ {s} :
                          sessions[t].present =>
                              sessions[t].messages # sessions[s].messages)
    /\ [][\A s \in SessionIds :
            (chat'.pc # "idle" /\ s # chat'.session_id) =>
                /\ sessions'[s] = sessions[s]
                /\ sessions[s].present =>
                      heap'[sessions[s].messages] = heap[sessions[s].messages]]_vars
    /\ [][(chat'.pc = "agent" /\ chat.pc # "agent" /\ chat.pc # "tools"
            /\ chat'.fresh) =>
                /\ ~sessions[chat'.session_id].present
                /\ heap'[sessions'[chat'.session_id].messages] =
                      Append(initial_messages, [type |-> "human", n |-> chat'.n])]_vars

\* Two sessions, each with its own history and its own calendar_id
C24_TwoSessionsSideBySide ==
    /\ chat.pc = "responded"
    /\ chat.n = 2
    /\ sessions["A"].present /\ sessions["B"].present
    /\ sessions["A"].calendar_id # sessions["B"].calendar_id
    /\ heap[sessions["A"].messages] # heap[sessions["B"].messages]
    /\ Len(heap[sessions["A"].messages]) > 3

\* C25: when agent.invoke raises, the request fails with HTTP 500 and the
\* history stored for the session is what it was before the request: the
\* user message of the failed request is not in it.
C25_FailedRequestLeavesHistoryUnchanged ==
    chat.pc = "failed" =>
        LET stored == heap[sessions[chat.session_id].messages]
        IN /\ \A i \in 1..Len(stored) :
                stored[i] # [type |-> "human", n |-> chat.n]
           /\ ~chat.fresh => stored = chat.before

====
